---- MODULE Spec2Model ----
(***************************************************************************)
(* A model of the repository's example programs: the start-up API-key      *)
(* check, the retry wrappers, the conversation-history trimmers, the       *)
(* semaphore-limited request manager, the round-robin agent pool, the      *)
(* secure agent wrapper with its audit log, the hand-off input filter and  *)
(* the main agent's hand-offs, the response cache, the sequential,         *)
(* conditional and parallel workflows, the e-mail validator, the agent     *)
(* configuration and the healthcare input guardrail.                       *)
(*                                                                         *)
(* Each program is a component with its own variables and its own          *)
(* specification; a component's specification leaves the other             *)
(* components' variables at their idle values.  Python strings are         *)
(* sequences of one-character strings; the external SDK (Agent, Runner)    *)
(* is an environment whose calls succeed or raise nondeterministically.    *)
(***************************************************************************)
EXTENDS Integers, Sequences, FiniteSets, TLC

VARIABLES
    startup,    \* a script with the start-up API-key check
    retry,      \* one call of RobustAgent.execute_with_retry / safe_agent_execution
    conv,       \* a ConversationManager
    optimizer,  \* one call of ContextOptimizer.optimize_conversation_history
    manager,    \* an EnterpriseAgentManager and the execute_request calls on it
    pools,      \* the manager's agent_pools: an AgentPool per pool name
    secure,     \* a SecureAgentWrapper and the secure_execute calls on it
    handoff,    \* one call of filter_sensitive_data
    mainagent,  \* a run of main_agent with its hand-offs and hand-off tools
    cache,      \* an OptimizedAgentManager and one batch_execute on it
    seqflow,    \* one call of sequential_workflow
    router,     \* one call of conditional_workflow
    email,      \* one call of validate_email
    agentcfg,   \* the construction of a BaseAgent or CustomerSupportAgent
    guardrail,  \* one call of healthcare_input_guardrail
    parallel    \* one call of parallel_workflow

vars ==
    <<startup, retry, conv, optimizer, manager, pools, secure, handoff,
        mainagent, cache, seqflow, router, email, agentcfg, guardrail,
        parallel>>

\* what each component's actions leave alone
startupOthers ==
    <<retry, conv, optimizer, manager, pools, secure, handoff, mainagent,
        cache, seqflow, router, email, agentcfg, guardrail, parallel>>
retryOthers ==
    <<startup, conv, optimizer, manager, pools, secure, handoff,
        mainagent, cache, seqflow, router, email, agentcfg, guardrail,
        parallel>>
convOthers ==
    <<startup, retry, optimizer, manager, pools, secure, handoff,
        mainagent, cache, seqflow, router, email, agentcfg, guardrail,
        parallel>>
optimizerOthers ==
    <<startup, retry, conv, manager, pools, secure, handoff, mainagent,
        cache, seqflow, router, email, agentcfg, guardrail, parallel>>
managerOthers ==
    <<startup, retry, conv, optimizer, pools, secure, handoff, mainagent,
        cache, seqflow, router, email, agentcfg, guardrail, parallel>>
poolsOthers ==
    <<startup, retry, conv, optimizer, manager, secure, handoff,
        mainagent, cache, seqflow, router, email, agentcfg, guardrail,
        parallel>>
secureOthers ==
    <<startup, retry, conv, optimizer, manager, pools, handoff,
        mainagent, cache, seqflow, router, email, agentcfg, guardrail,
        parallel>>
handoffOthers ==
    <<startup, retry, conv, optimizer, manager, pools, secure, mainagent,
        cache, seqflow, router, email, agentcfg, guardrail, parallel>>
mainagentOthers ==
    <<startup, retry, conv, optimizer, manager, pools, secure, handoff,
        cache, seqflow, router, email, agentcfg, guardrail, parallel>>
cacheOthers ==
    <<startup, retry, conv, optimizer, manager, pools, secure, handoff,
        mainagent, seqflow, router, email, agentcfg, guardrail,
        parallel>>
seqflowOthers ==
    <<startup, retry, conv, optimizer, manager, pools, secure, handoff,
        mainagent, cache, router, email, agentcfg, guardrail, parallel>>
routerOthers ==
    <<startup, retry, conv, optimizer, manager, pools, secure, handoff,
        mainagent, cache, seqflow, email, agentcfg, guardrail,
        parallel>>
emailOthers ==
    <<startup, retry, conv, optimizer, manager, pools, secure, handoff,
        mainagent, cache, seqflow, router, agentcfg, guardrail,
        parallel>>
agentcfgOthers ==
    <<startup, retry, conv, optimizer, manager, pools, secure, handoff,
        mainagent, cache, seqflow, router, email, guardrail, parallel>>
guardrailOthers ==
    <<startup, retry, conv, optimizer, manager, pools, secure, handoff,
        mainagent, cache, seqflow, router, email, agentcfg, parallel>>
parallelOthers ==
    <<startup, retry, conv, optimizer, manager, pools, secure, handoff,
        mainagent, cache, seqflow, router, email, agentcfg, guardrail>>

(***************************************************************************)
(* Helpers on sequences.                                                   *)
(***************************************************************************)
RECURSIVE SeqsUpTo(_, _)
\* every sequence over S of length at most n
SeqsUpTo(S, n) ==
    IF n = 0 THEN {<<>>}
    ELSE LET shorter == SeqsUpTo(S, n - 1)
         IN  shorter \cup {Append(s, x) : s \in {t \in shorter : Len(t) = n - 1}, x \in S}

\* Python's s[i:] for a list of length Len(s) and any integer i
SliceFrom(s, i) ==
    LET n     == Len(s)
        start == IF i < 0 THEN (IF n + i < 0 THEN 0 ELSE n + i)
                 ELSE (IF i > n THEN n ELSE i)
    IN  SubSeq(s, start + 1, n)

\* the last n elements of s, for 0 <= n <= Len(s)
LastN(s, n) == SubSeq(s, Len(s) - n + 1, Len(s))

\* Python's s[:j] for 0 <= j
SliceTo(s, j) == SubSeq(s, 1, IF j > Len(s) THEN Len(s) ELSE j)

(***************************************************************************)
(* Idle values: what a component's variable holds while another            *)
(* component's specification runs.                                         *)
(***************************************************************************)
StartupIdle == [pc |-> "idle"]
RetryIdle == [pc |-> "idle"]
ConvIdle == [pc |-> "idle"]
OptimizerIdle == [pc |-> "idle"]
ManagerIdle == [pc |-> "idle"]
PoolsIdle == [pc |-> "idle"]
SecureIdle == [pc |-> "idle"]
HandoffIdle == [pc |-> "idle"]
MainagentIdle == [pc |-> "idle"]
CacheIdle == [pc |-> "idle"]
SeqflowIdle == [pc |-> "idle"]
RouterIdle == [pc |-> "idle"]
EmailIdle == [pc |-> "idle"]
AgentcfgIdle == [pc |-> "idle"]
GuardrailIdle == [pc |-> "idle"]
ParallelIdle == [pc |-> "idle"]

(***************************************************************************)
(* START-UP CHECK (test_setup.py, 08_no_memory.py, 20_memory_optimization  *)
(* .py and the other scripts).  A script calls load_dotenv(), reads        *)
(* OPENAI_API_KEY, raises ValueError when it is missing or does not start  *)
(* with "sk-", and only then constructs agents and calls the runner.       *)
(*   startup.api_key             os.getenv("OPENAI_API_KEY"): [set, val]   *)
(*   startup.agents_constructed  Agent(...) constructions so far           *)
(*   startup.runner_calls        Runner.run_sync calls so far              *)
(***************************************************************************)
MaxKeyLen == 4
KeyChars == {"s", "k", "-", "x"}
Scripts == {"test_setup", "no_memory"}

\* Python's truth value of a str-or-None
Truthy(k) == k.set /\ k.val # <<>>

\* a plausible slip: `"sk-" in api_key` instead of api_key.startswith("sk-")
StartsWithAsContains(s, p) ==
    \E i \in 1..(Len(s) - Len(p) + 1) : SubSeq(s, i, i + Len(p) - 1) = p

\* str.startswith
StartsWith(s, p) == Len(s) >= Len(p) /\ SubSeq(s, 1, Len(p)) = p

SK == <<"s", "k", "-">>

\* number of Runner.run_sync calls the script makes after the check
RunsOf(sc) == IF sc = "test_setup" THEN 1 ELSE 2

InitStartup ==
    /\ startup \in [script : Scripts,
                    api_key : {[set |-> FALSE, val |-> <<>>]}
                              \cup {[set |-> TRUE, val |-> v] : v \in SeqsUpTo(KeyChars, MaxKeyLen)},
                    pc : {"getenv"},
                    agents_constructed : {0},
                    runner_calls : {0}]
    /\ retry = RetryIdle
    /\ conv = ConvIdle
    /\ optimizer = OptimizerIdle
    /\ manager = ManagerIdle
    /\ pools = PoolsIdle
    /\ secure = SecureIdle
    /\ handoff = HandoffIdle
    /\ mainagent = MainagentIdle
    /\ cache = CacheIdle
    /\ seqflow = SeqflowIdle
    /\ router = RouterIdle
    /\ email = EmailIdle
    /\ agentcfg = AgentcfgIdle
    /\ guardrail = GuardrailIdle
    /\ parallel = ParallelIdle

\* if not api_key: raise ValueError("OPENAI_API_KEY not found. ...")
CheckKeyPresent ==
    /\ startup.pc = "getenv"
    /\ startup' = [startup EXCEPT !.pc = IF ~Truthy(startup.api_key)
                                         THEN "ValueError_not_found" ELSE "present"]
    /\ UNCHANGED startupOthers

\* if not api_key.startswith("sk-"): raise ValueError("Invalid OpenAI API key format.")
CheckKeyFormat ==
    /\ startup.pc = "present"
    /\ startup' = [startup EXCEPT !.pc = IF ~StartsWith(startup.api_key.val, SK)
                                         THEN "ValueError_format" ELSE "validated"]
    /\ UNCHANGED startupOthers

\* Agent(name=..., instructions=...)
ConstructAgent ==
    /\ startup.pc = "validated"
    /\ startup' = [startup EXCEPT !.agents_constructed = @ + 1, !.pc = "agent_ready"]
    /\ UNCHANGED startupOthers

\* Runner.run_sync(agent, ...) returning normally
RunnerReturns ==
    /\ startup.pc = "agent_ready"
    /\ startup' = [startup EXCEPT
                      !.runner_calls = @ + 1,
                      !.pc = IF startup.runner_calls + 1 = RunsOf(startup.script)
                             THEN "done" ELSE "agent_ready"]
    /\ UNCHANGED startupOthers

\* Runner.run_sync raising: test_environment catches it and returns False,
\* the module-level scripts let it end the script.
RunnerRaises ==
    /\ startup.pc = "agent_ready"
    /\ startup' = [startup EXCEPT
                      !.runner_calls = @ + 1,
                      !.pc = IF startup.script = "test_setup"
                             THEN "returned_false" ELSE "run_failed"]
    /\ UNCHANGED startupOthers

NextStartup ==
    \/ CheckKeyPresent
    \/ CheckKeyFormat
    \/ ConstructAgent
    \/ RunnerReturns
    \/ RunnerRaises

SpecStartup == InitStartup /\ [][NextStartup]_vars

\* the keys the claim lets a script run with: set, and starting with "sk-"
KeyAccepted(k) == k.set /\ Len(k.val) >= 3 /\ k.val[1] = "s" /\ k.val[2] = "k" /\ k.val[3] = "-"

\* C1: in a script with the start-up check, a missing, empty or malformed
\* (not starting with "sk-") OPENAI_API_KEY never gets past the check: no
\* Agent is constructed and no Runner call is made, and the script is
\* either still inside the check or has ended with a ValueError.
C1_BadKeyNeverRuns ==
    (startup.pc # "idle" /\ ~KeyAccepted(startup.api_key)) =>
        /\ startup.agents_constructed = 0
        /\ startup.runner_calls = 0
        /\ startup.pc \in {"getenv", "present", "ValueError_not_found", "ValueError_format"}
        /\ (startup.pc = "present" => Truthy(startup.api_key))

\* a set, non-empty key that holds "sk-" but not as its prefix has been
\* rejected by the format check
C1_Witness ==
    /\ startup.pc = "ValueError_format"
    /\ startup.api_key.set
    /\ startup.api_key.val = <<"x", "s", "k", "-">>

(***************************************************************************)
(* RETRY LOOPS: RobustAgent.execute_with_retry (16_error_handling.py) and  *)
(* safe_agent_execution (05_error_handling_agent.py).                      *)
(*   retry.fn           the function called                                *)
(*   retry.max_retries  its max_retries                                    *)
(*   retry.attempt      the loop variable of `for attempt in range(...)`   *)
(*   retry.log          the outcome of every Runner.run_sync call, in order*)
(*   retry.ret          what the call returned or raised                   *)
(***************************************************************************)
MaxRetriesBound == 3
RetryFns == {"execute_with_retry", "safe_agent_execution"}
\* what one Runner.run_sync call does: return a result, or raise one of the
\* SDK's exceptions or any other exception
RunOutcomes == {"ok", "MaxTurnsExceeded", "ModelBehaviorError", "AgentsException", "Exception"}

\* the attributes an ErrorResult instance has when __init__ reads self.agent:
\* only final_output has been assigned, and the class defines none
ErrorResultAttrs == {"final_output"}

\* RobustAgent._create_error_response: ErrorResult.__init__ sets
\* self.final_output and then evaluates self.agent on the ErrorResult
\* instance, which has no such attribute
CreateErrorResponse(message) ==
    IF "agent" \in ErrorResultAttrs
    THEN [kind |-> "fallback", final_output |-> message]
    ELSE [kind |-> "raised", exc |-> "AttributeError"]

\* the message each except clause of execute_with_retry passes on the last attempt
ErrorMessage(outcome) ==
    CASE outcome = "MaxTurnsExceeded"   -> "The request was too complex to complete."
      [] outcome = "ModelBehaviorError" -> "Unable to process request due to response format issues."
      [] OTHER                          -> "An unexpected error occurred. Please try again."

Unavailable == "Service temporarily unavailable."

\* an off-by-one loop bound: one attempt too many
RangeHasNextInclusive(a, n) == a <= n

\* `for attempt in range(max_retries)` has another iteration
RangeHasNext(a, n) == a < n

\* the state of the call after a Runner.run_sync that ended with `outcome`
AfterAttempt(r, outcome) ==
    LET logged == [r EXCEPT !.log = Append(@, outcome)]
        last   == r.attempt = r.max_retries - 1
        again  == [logged EXCEPT !.attempt = @ + 1]
        return(v) == [logged EXCEPT !.pc = IF v.kind = "raised" THEN "raised" ELSE "returned",
                                    !.ret = v]
    IN  IF outcome = "ok"
        THEN return([kind |-> "result", of |-> Len(logged.log)])
        ELSE IF r.fn = "execute_with_retry"
        THEN \* except MaxTurnsExceeded / ModelBehaviorError / Exception
             IF last THEN return(CreateErrorResponse(ErrorMessage(outcome))) ELSE again
        ELSE \* safe_agent_execution: AgentsException is not retried
             IF outcome = "AgentsException" \/ last THEN return([kind |-> "None"]) ELSE again

InitRetry ==
    /\ retry \in [fn : RetryFns,
                  max_retries : 0..MaxRetriesBound,
                  attempt : {0},
                  pc : {"loop"},
                  log : {<<>>},
                  ret : {[kind |-> "none"]}]
    /\ startup = StartupIdle
    /\ conv = ConvIdle
    /\ optimizer = OptimizerIdle
    /\ manager = ManagerIdle
    /\ pools = PoolsIdle
    /\ secure = SecureIdle
    /\ handoff = HandoffIdle
    /\ mainagent = MainagentIdle
    /\ cache = CacheIdle
    /\ seqflow = SeqflowIdle
    /\ router = RouterIdle
    /\ email = EmailIdle
    /\ agentcfg = AgentcfgIdle
    /\ guardrail = GuardrailIdle
    /\ parallel = ParallelIdle

\* one iteration of the loop: Runner.run_sync and the handler of its outcome
Attempt ==
    /\ retry.pc = "loop"
    /\ RangeHasNext(retry.attempt, retry.max_retries)
    /\ \E outcome \in RunOutcomes : retry' = AfterAttempt(retry, outcome)
    /\ UNCHANGED retryOthers

\* the statement after the loop, reached when the range is exhausted
AfterLoop ==
    /\ retry.pc = "loop"
    /\ ~RangeHasNext(retry.attempt, retry.max_retries)
    /\ LET v == IF retry.fn = "execute_with_retry"
                THEN CreateErrorResponse(Unavailable)
                ELSE [kind |-> "None"]
       IN  retry' = [retry EXCEPT !.pc = IF v.kind = "raised" THEN "raised" ELSE "returned",
                                  !.ret = v]
    /\ UNCHANGED retryOthers

NextRetry ==
    \/ Attempt
    \/ AfterLoop

SpecRetry == InitRetry /\ [][NextRetry]_vars

\* the synchronous loop keeps running: every Runner.run_sync call ends
SpecRetryFair == SpecRetry /\ WF_vars(NextRetry)

RetryEnded == retry.pc \in {"returned", "raised"}
NoSuccess == \A i \in 1..Len(retry.log) : retry.log[i] # "ok"

\* C2 (as claimed): execute_with_retry never raises to its caller, and when
\* every attempt failed, or max_retries is 0, it returns a fallback result
\* whose final_output is the message of the last failure.
C2_GracefulDegradation ==
    (retry.pc # "idle" /\ retry.fn = "execute_with_retry") =>
        /\ retry.pc # "raised"
        /\ (retry.pc = "returned" /\ NoSuccess) =>
              /\ retry.ret.kind = "fallback"
              /\ retry.ret.final_output =
                    IF retry.log = <<>> THEN Unavailable
                    ELSE ErrorMessage(retry.log[Len(retry.log)])

C3_Safety ==
    retry.pc # "idle" =>
        \* at most max_retries calls of Runner.run_sync
        /\ Len(retry.log) <= retry.max_retries
        \* no attempt follows a successful one
        /\ \A i \in 1..Len(retry.log) : retry.log[i] = "ok" => i = Len(retry.log)
        \* a success ends the call at once, returning that attempt's result
        /\ (retry.log # <<>> /\ retry.log[Len(retry.log)] = "ok") =>
              /\ retry.pc = "returned"
              /\ retry.ret = [kind |-> "result", of |-> Len(retry.log)]
        /\ (retry.pc = "returned" /\ retry.ret.kind = "result") =>
              (retry.log # <<>> /\ retry.log[Len(retry.log)] = "ok")

\* C3: the retry loops are fixed-count: one call makes at most max_retries
\* Runner.run_sync calls, returns the result of the first successful attempt
\* without a further attempt, and ends (by returning or raising) whatever
\* failures the runner produces.
C3_FixedCountRetry == []C3_Safety /\ <>RetryEnded

\* two failures, then the third attempt succeeds and its result is returned
C3_Witness ==
    /\ retry.pc = "returned"
    /\ retry.max_retries = 3
    /\ retry.log = <<"MaxTurnsExceeded", "Exception", "ok">>
    /\ retry.ret = [kind |-> "result", of |-> 3]

(***************************************************************************)
(* ConversationManager (10_production_example_conversation.py).  Messages  *)
(* are numbered as they are created, so that order and identity can be     *)
(* told.                                                                   *)
(*   conv.max_history_length    as given to __init__                       *)
(*   conv.conversation_history  the kept history                           *)
(*   conv.untrimmed             result.to_input_list() of the last call    *)
(*   conv.next_msg              number of the next message created         *)
(*   conv.sends                 send_message calls so far                  *)
(***************************************************************************)
MaxHistoryBound == 3
MaxSends == 4
MaxNewItems == 2

\* result.to_input_list(): the run's input items followed by the k items
\* the run produced, numbered from `first`
ToInputList(input, first, k) == input \o [i \in 1..k |-> first + i - 1]

\* the trimming at the end of send_message:
\*   if len(h) > n: h = h[:1] + h[-(n-1):]
TrimHistory(h, n) ==
    IF Len(h) > n THEN SliceTo(h, 1) \o SliceFrom(h, -(n - 1)) ELSE h

InitConv ==
    /\ conv \in [max_history_length : 1..MaxHistoryBound,
                 conversation_history : {<<>>},
                 untrimmed : {<<>>},
                 next_msg : {1},
                 sends : {0},
                 pc : {"ready"}]
    /\ startup = StartupIdle
    /\ retry = RetryIdle
    /\ optimizer = OptimizerIdle
    /\ manager = ManagerIdle
    /\ pools = PoolsIdle
    /\ secure = SecureIdle
    /\ handoff = HandoffIdle
    /\ mainagent = MainagentIdle
    /\ cache = CacheIdle
    /\ seqflow = SeqflowIdle
    /\ router = RouterIdle
    /\ email = EmailIdle
    /\ agentcfg = AgentcfgIdle
    /\ guardrail = GuardrailIdle
    /\ parallel = ParallelIdle

\* send_message(user_message) with Runner.run returning a result of k new items
SendMessage ==
    /\ conv.pc = "ready"
    /\ conv.sends < MaxSends
    /\ \E k \in 1..MaxNewItems :
         LET user_item     == conv.next_msg
             \* history + [user message], or the bare string when history is empty
             current_input == Append(conv.conversation_history, user_item)
             input_list    == ToInputList(current_input, user_item + 1, k)
         IN  conv' = [conv EXCEPT
                        !.untrimmed = input_list,
                        !.conversation_history = TrimHistory(input_list, conv.max_history_length),
                        !.next_msg = user_item + 1 + k,
                        !.sends = @ + 1]
    /\ UNCHANGED convOthers

\* send_message with Runner.run raising: the exception leaves send_message
\* before the history is assigned
SendMessageRaises ==
    /\ conv.pc = "ready"
    /\ conv.sends < MaxSends
    /\ conv' = [conv EXCEPT !.next_msg = @ + 1, !.sends = @ + 1]
    /\ UNCHANGED convOthers

NextConv ==
    \/ SendMessage
    \/ SendMessageRaises

SpecConv == InitConv /\ [][NextConv]_vars

\* C4 (as claimed): after every send_message the history holds at most
\* max_history_length messages, for every max_history_length >= 1, and a
\* trimmed history is the first message of the untrimmed list followed by
\* its last max_history_length - 1 messages in order.
C4_BoundedHistory ==
    (conv.pc = "ready" /\ conv.max_history_length >= 1) =>
        /\ Len(conv.conversation_history) <= conv.max_history_length
        /\ Len(conv.untrimmed) > conv.max_history_length =>
              conv.conversation_history =
                  <<conv.untrimmed[1]>> \o LastN(conv.untrimmed, conv.max_history_length - 1)

(***************************************************************************)
(* ContextOptimizer.optimize_conversation_history (20_memory_optimization  *)
(* .py).  A message is [role, id], id its position in the argument.        *)
(***************************************************************************)
MaxContextBound == 3
MaxHistoryLen == 4
Roles == {"system", "user", "assistant"}

IsSystem(msg) == msg.role = "system"
IsNotSystem(msg) == msg.role # "system"

\* optimize_conversation_history(history) with self.max_context_length = n
OptimizeConversationHistory(history, n) ==
    IF Len(history) <= n
    THEN history
    ELSE LET system_messages == SelectSeq(history, IsSystem)
             other_messages  == SelectSeq(history, IsNotSystem)
             recent_messages == SliceFrom(other_messages, -(n - Len(system_messages)))
         IN  system_messages \o recent_messages

InitOptimizer ==
    /\ optimizer \in
         {[max_context_length |-> n,
           history |-> [i \in 1..Len(rs) |-> [role |-> rs[i], id |-> i]],
           result |-> <<>>,
           pc |-> "call"] : n \in 1..MaxContextBound, rs \in SeqsUpTo(Roles, MaxHistoryLen)}
    /\ startup = StartupIdle
    /\ retry = RetryIdle
    /\ conv = ConvIdle
    /\ manager = ManagerIdle
    /\ pools = PoolsIdle
    /\ secure = SecureIdle
    /\ handoff = HandoffIdle
    /\ mainagent = MainagentIdle
    /\ cache = CacheIdle
    /\ seqflow = SeqflowIdle
    /\ router = RouterIdle
    /\ email = EmailIdle
    /\ agentcfg = AgentcfgIdle
    /\ guardrail = GuardrailIdle
    /\ parallel = ParallelIdle

Optimize ==
    /\ optimizer.pc = "call"
    /\ optimizer' = [optimizer EXCEPT
                       !.result = OptimizeConversationHistory(optimizer.history,
                                                              optimizer.max_context_length),
                       !.pc = "returned"]
    /\ UNCHANGED optimizerOthers

NextOptimizer == Optimize

SpecOptimizer == InitOptimizer /\ [][NextOptimizer]_vars

\* C5 (as claimed): a history of at most max_context_length messages is
\* returned unchanged; a longer one yields at most max_context_length
\* messages, every system message followed by the most recent non-system
\* messages in order, however many system messages there are.
C5_OptimizedWithinLimit ==
    optimizer.pc = "returned" =>
        LET h      == optimizer.history
            n      == optimizer.max_context_length
            sys    == SelectSeq(h, IsSystem)
            others == SelectSeq(h, IsNotSystem)
        IN  /\ Len(h) <= n => optimizer.result = h
            /\ Len(h) > n =>
                  /\ Len(optimizer.result) <= n
                  /\ \E m \in 0..Len(others) : optimizer.result = sys \o LastN(others, m)

(***************************************************************************)
(* EnterpriseAgentManager.execute_request (21_scalable_agent.py): the      *)
(* whole body runs inside `async with self.semaphore`.  asyncio.Semaphore  *)
(* is a counter: entering the block waits until the counter is positive    *)
(* and decrements it; leaving the block, normally or by an exception,      *)
(* increments it.                                                          *)
(*   manager.max_concurrent_requests  as given to __init__                 *)
(*   manager.semaphore                the semaphore's counter              *)
(*   manager.req[r]                    where request r is                   *)
(*   manager.result[r]                "success" of the dict r returned     *)
(***************************************************************************)
NumRequests == 3
MaxConcurrentBound == 2
Requests == 1..NumRequests

\* acquire() ... release() without try/finally: an exception skips the release
ExitSectionNoFinally(value, raised) == IF raised THEN value ELSE value + 1

\* leaving `async with self.semaphore`, normally or by an exception:
\* Semaphore.release()
ExitSection(value, raised) == value + 1

\* Semaphore.acquire() can proceed
CanAcquire(value) == value > 0

Inside == {r \in Requests : manager.req[r] = "inside"}

InitManager ==
    /\ manager \in {[max_concurrent_requests |-> n,
                     semaphore |-> n,
                     pc |-> "running",
                     req |-> [r \in Requests |-> "new"],
                     result |-> [r \in Requests |-> "none"]] : n \in 1..MaxConcurrentBound}
    /\ startup = StartupIdle
    /\ retry = RetryIdle
    /\ conv = ConvIdle
    /\ optimizer = OptimizerIdle
    /\ pools = PoolsIdle
    /\ secure = SecureIdle
    /\ handoff = HandoffIdle
    /\ mainagent = MainagentIdle
    /\ cache = CacheIdle
    /\ seqflow = SeqflowIdle
    /\ router = RouterIdle
    /\ email = EmailIdle
    /\ agentcfg = AgentcfgIdle
    /\ guardrail = GuardrailIdle
    /\ parallel = ParallelIdle

\* execute_request(...) is started and reaches `async with self.semaphore`
CallExecuteRequest(r) ==
    /\ manager.req[r] = "new"
    /\ manager' = [manager EXCEPT !.req[r] = "waiting"]
    /\ UNCHANGED managerOthers

\* the semaphore is acquired and the guarded section entered
EnterSection(r) ==
    /\ manager.req[r] = "waiting"
    /\ CanAcquire(manager.semaphore)
    /\ manager' = [manager EXCEPT !.req[r] = "inside", !.semaphore = @ - 1]
    /\ UNCHANGED managerOthers

\* the try block runs the agent and returns the success dict
RequestSucceeds(r) ==
    /\ manager.req[r] = "inside"
    /\ manager' = [manager EXCEPT !.req[r] = "done",
                                  !.result[r] = "success",
                                  !.semaphore = ExitSection(@, FALSE)]
    /\ UNCHANGED managerOthers

\* the try block raises; `except Exception` returns the failure dict
RequestFails(r) ==
    /\ manager.req[r] = "inside"
    /\ manager' = [manager EXCEPT !.req[r] = "done",
                                  !.result[r] = "failed",
                                  !.semaphore = ExitSection(@, TRUE)]
    /\ UNCHANGED managerOthers

NextManager ==
    \E r \in Requests :
        \/ CallExecuteRequest(r)
        \/ EnterSection(r)
        \/ RequestSucceeds(r)
        \/ RequestFails(r)

SpecManager == InitManager /\ [][NextManager]_vars

\* the event loop runs every task that can proceed, and every agent run
\* ends, by a result or by an exception
SpecManagerFair ==
    /\ SpecManager
    /\ \A r \in Requests :
          /\ WF_vars(EnterSection(r))
          /\ WF_vars(RequestSucceeds(r) \/ RequestFails(r))

C6_AtMostMax ==
    manager.pc # "idle" =>
        /\ Cardinality(Inside) <= manager.max_concurrent_requests
        /\ manager.semaphore = manager.max_concurrent_requests - Cardinality(Inside)

\* C6: at no time are more than max_concurrent_requests requests inside the
\* semaphore-guarded section; a request that ends, by a result or by an
\* exception, gives its slot back, so every waiting request eventually
\* enters the section.
C6_SemaphoreLimits ==
    /\ []C6_AtMostMax
    /\ \A r \in Requests : (manager.req[r] = "waiting") ~> (manager.req[r] = "inside")

\* with one slot: a request has failed and is done, a second one holds the
\* slot the first gave back, a third waits
C6_Witness ==
    /\ manager.pc # "idle"
    /\ manager.max_concurrent_requests = 1
    /\ \E a, b, c \in Requests :
          /\ manager.req[a] = "done" /\ manager.result[a] = "failed"
          /\ manager.req[b] = "inside"
          /\ manager.req[c] = "waiting"

(***************************************************************************)
(* AgentPool.get_next_agent (21_scalable_agent.py), for the pools that     *)
(* register_agent_pool put into agent_pools.  There is no await inside     *)
(* get_next_agent, so a call is one step.                                  *)
(*   pools.pool[p].agents         the pool's agents, in list order         *)
(*   pools.pool[p].current_index  its round-robin index                    *)
(*   pools.returned[p]            what get_next_agent returned, in order   *)
(***************************************************************************)
MaxAgents == 3
MaxCalls == 5
PoolNames == {"customer_service", "technical_support"}

\* the agents given to register_agent_pool: Agent(name=f"{pool}-{i}")
AgentsOf(p, n) == [i \in 1..n |-> [name |-> <<p, i - 1>>]]

\* a wrap-around one too early: the last agent is never reached
NextIndexSkippingLast(index, n) == IF index + 1 >= n - 1 THEN 0 ELSE index + 1

\* (self.current_index + 1) % len(self.agents)
NextIndex(index, n) == (index + 1) % n

\* register_agent_pool for every pool name: AgentPool(agents=agents), index 0
InitPools ==
    /\ pools \in {[pool |-> [p \in PoolNames |->
                                [agents |-> AgentsOf(p, size[p]), current_index |-> 0]],
                   returned |-> [p \in PoolNames |-> <<>>],
                   pc |-> "registered"] : size \in [PoolNames -> 1..MaxAgents]}
    /\ startup = StartupIdle
    /\ retry = RetryIdle
    /\ conv = ConvIdle
    /\ optimizer = OptimizerIdle
    /\ manager = ManagerIdle
    /\ secure = SecureIdle
    /\ handoff = HandoffIdle
    /\ mainagent = MainagentIdle
    /\ cache = CacheIdle
    /\ seqflow = SeqflowIdle
    /\ router = RouterIdle
    /\ email = EmailIdle
    /\ agentcfg = AgentcfgIdle
    /\ guardrail = GuardrailIdle
    /\ parallel = ParallelIdle

\* agent_pools[p].get_next_agent()
GetNextAgent(p) ==
    /\ pools.pc = "registered"
    /\ Len(pools.returned[p]) < MaxCalls
    /\ LET ap    == pools.pool[p]
           \* Python lists are 0-based
           agent == ap.agents[ap.current_index + 1]
       IN  pools' = [pools EXCEPT
                       !.pool[p].current_index = NextIndex(ap.current_index, Len(ap.agents)),
                       !.returned[p] = Append(@, agent)]
    /\ UNCHANGED poolsOthers

NextPools == \E p \in PoolNames : GetNextAgent(p)

SpecPools == InitPools /\ [][NextPools]_vars

\* C7: get_next_agent is round-robin: the k-th call on a pool of n >= 1
\* agents returns agents[(k-1) mod n], current_index stays in 0..n-1, and
\* every window of n consecutive calls returns each agent exactly once.
C7_RoundRobin ==
    pools.pc # "idle" =>
        \A p \in PoolNames :
            LET ap  == pools.pool[p]
                n   == Len(ap.agents)
                ret == pools.returned[p]
            IN  /\ ap.current_index \in 0..(n - 1)
                /\ ap.current_index = Len(ret) % n
                /\ \A k \in 1..Len(ret) : ret[k] = ap.agents[((k - 1) % n) + 1]
                /\ \A s \in 1..Len(ret) :
                      s + n - 1 <= Len(ret) =>
                          \A a \in 1..n :
                              Cardinality({k \in s..(s + n - 1) : ret[k] = ap.agents[a]}) = 1

\* a pool of three agents has been asked five times: the index wrapped
\* round and the first two agents were returned a second time
C7_Witness ==
    /\ pools.pc # "idle"
    /\ \E p \in PoolNames :
          /\ Len(pools.pool[p].agents) = 3
          /\ Len(pools.returned[p]) = 5
          /\ pools.returned[p][4] = pools.pool[p].agents[1]
          /\ pools.returned[p][5] = pools.pool[p].agents[2]

(***************************************************************************)
(* SecureAgentWrapper (22_security.py).  A dict of metadata is modelled    *)
(* by its "success" key: whether it is present, and its value.             *)
(*   secure.policies        blocked_patterns and max_input_length          *)
(*   secure.audit_log       the audit log, a list of entries               *)
(*   secure.input           the user_input of the current (or last) call   *)
(*   secure.metadata        its metadata, after `metadata or {}`           *)
(*   secure.ran             whether that call has called Runner.run        *)
(*   secure.result          the dict the last call returned                *)
(*   secure.calls_returned  secure_execute calls that have returned        *)
(*   secure.runs_succeeded  Runner.run calls that returned a result        *)
(***************************************************************************)
MaxInputLen == 3
MaxSecureCalls == 3
InputChars == {"a", "A", "b"}

\* str.lower() on one character of the alphabet
LowerChar(c) == IF c = "A" THEN "a" ELSE c
\* str.lower()
Lower(str) == [i \in 1..Len(str) |-> LowerChar(str[i])]

\* Python's `needle in haystack` for strings
Contains(haystack, needle) ==
    \E i \in 1..(Len(haystack) - Len(needle) + 1) :
        SubSeq(haystack, i, i + Len(needle) - 1) = needle

\* the policies a wrapper is built with
PolicyChoices ==
    [blocked_patterns : { << <<"A", "b">> >>, << <<"b", "b">>, <<"a">> >> },
     max_input_length : {2, 3}]

\* the metadata argument: None or a dict without "success", or a dict
\* whose "success" the caller has set
MetadataChoices ==
    {[has_success |-> FALSE, success |-> FALSE],
     [has_success |-> TRUE, success |-> TRUE],
     [has_success |-> TRUE, success |-> FALSE]}

\* a comparison that forgets .lower()
BlockedByCaseSensitive(pattern, user_input) == Contains(user_input, pattern)

\* pattern.lower() in user_input.lower()
BlockedBy(pattern, user_input) == Contains(Lower(user_input), Lower(pattern))

\* validate_input: (is_valid, validation_message)
ValidateInput(policies, user_input) ==
    LET patterns == policies.blocked_patterns
        hits     == {i \in 1..Len(patterns) : BlockedBy(patterns[i], user_input)}
    IN  IF hits # {}
        THEN \* the loop returns at the first pattern found
             LET first == CHOOSE i \in hits : \A j \in hits : i <= j
             IN  [is_valid |-> FALSE,
                  message |-> [text |-> "Input contains blocked pattern", arg |-> patterns[first]]]
        ELSE IF Len(user_input) > policies.max_input_length
        THEN [is_valid |-> FALSE,
              message |-> [text |-> "Input exceeds maximum length",
                           arg |-> policies.max_input_length]]
        ELSE [is_valid |-> TRUE, message |-> [text |-> "Input validated", arg |-> 0]]

\* {"success": value, **metadata}: a "success" of the caller's wins
WithSuccessCallerWins(metadata, value) ==
    IF metadata.has_success THEN metadata ELSE [has_success |-> TRUE, success |-> value]

\* {**metadata, "success": value}
WithSuccess(metadata, value) == [has_success |-> TRUE, success |-> value]

\* log_interaction: the entry appended, with metadata.get("success", True)
LogInteraction(audit_log, metadata) ==
    Append(audit_log, [success |-> IF metadata.has_success THEN metadata.success ELSE TRUE])

\* get_audit_report
GetAuditReport(audit_log) ==
    [total_interactions      |-> Len(audit_log),
     successful_interactions |-> Cardinality({i \in 1..Len(audit_log) : audit_log[i].success})]

NoResult == [success |-> FALSE, blocked |-> FALSE, error |-> [text |-> "none", arg |-> 0]]

InitSecure ==
    /\ secure \in [policies : PolicyChoices,
                   audit_log : {<<>>},
                   input : {<<>>},
                   metadata : {[has_success |-> FALSE, success |-> FALSE]},
                   ran : {FALSE},
                   result : {NoResult},
                   calls_returned : {0},
                   runs_succeeded : {0},
                   pc : {"ready"}]
    /\ startup = StartupIdle
    /\ retry = RetryIdle
    /\ conv = ConvIdle
    /\ optimizer = OptimizerIdle
    /\ manager = ManagerIdle
    /\ pools = PoolsIdle
    /\ handoff = HandoffIdle
    /\ mainagent = MainagentIdle
    /\ cache = CacheIdle
    /\ seqflow = SeqflowIdle
    /\ router = RouterIdle
    /\ email = EmailIdle
    /\ agentcfg = AgentcfgIdle
    /\ guardrail = GuardrailIdle
    /\ parallel = ParallelIdle

\* secure_execute(user_input, metadata) up to `await Runner.run`: an input
\* that fails validation is logged and the blocked response returned
SecureExecute ==
    /\ secure.pc = "ready"
    /\ secure.calls_returned < MaxSecureCalls
    /\ \E user_input \in SeqsUpTo(InputChars, MaxInputLen), metadata \in MetadataChoices :
         LET v == ValidateInput(secure.policies, user_input)
         IN  IF ~v.is_valid
             THEN secure' = [secure EXCEPT
                               !.input = user_input,
                               !.metadata = metadata,
                               !.ran = FALSE,
                               !.audit_log = LogInteraction(@, WithSuccess(metadata, FALSE)),
                               !.result = [success |-> FALSE, blocked |-> TRUE,
                                           error |-> v.message],
                               !.calls_returned = @ + 1]
             ELSE secure' = [secure EXCEPT
                               !.input = user_input,
                               !.metadata = metadata,
                               !.ran = TRUE,
                               !.pc = "running"]
    /\ UNCHANGED secureOthers

\* Runner.run returns: the output is sanitized, the interaction logged and
\* the success response returned
RunReturns ==
    /\ secure.pc = "running"
    /\ secure' = [secure EXCEPT
                    !.audit_log = LogInteraction(@, WithSuccess(secure.metadata, TRUE)),
                    !.result = [success |-> TRUE, blocked |-> FALSE,
                                error |-> [text |-> "none", arg |-> 0]],
                    !.runs_succeeded = @ + 1,
                    !.calls_returned = @ + 1,
                    !.pc = "ready"]
    /\ UNCHANGED secureOthers

\* Runner.run raises: `except Exception` logs the interaction and returns
\* the failure response
RunRaises ==
    /\ secure.pc = "running"
    /\ secure' = [secure EXCEPT
                    !.audit_log = LogInteraction(@, WithSuccess(secure.metadata, FALSE)),
                    !.result = [success |-> FALSE, blocked |-> FALSE,
                                error |-> [text |-> "Execution failed", arg |-> 0]],
                    !.calls_returned = @ + 1,
                    !.pc = "ready"]
    /\ UNCHANGED secureOthers

NextSecure ==
    \/ SecureExecute
    \/ RunReturns
    \/ RunRaises

SpecSecure == InitSecure /\ [][NextSecure]_vars

\* letters that differ at most in case
SameLetter(c, d) == c = d \/ {c, d} = {"a", "A"}

\* the claim's rejected inputs: some blocked pattern occurs in the input,
\* letters compared without regard to case, or the input is too long
Rejected(policies, user_input) ==
    \/ \E k \in 1..Len(policies.blocked_patterns) :
          LET p == policies.blocked_patterns[k]
          IN  \E off \in 0..(Len(user_input) - Len(p)) :
                  \A i \in 1..Len(p) : SameLetter(p[i], user_input[off + i])
    \/ Len(user_input) > policies.max_input_length

\* C8: secure_execute never runs the agent on a rejected input: an input
\* that contains a blocked pattern (case-insensitively) or is longer than
\* max_input_length gets success=False, blocked=True and a validation
\* message, without Runner.run; the agent runs only on inputs that pass.
C8_RejectedNeverRuns ==
    (secure.pc # "idle" /\ (secure.pc = "running" \/ secure.calls_returned > 0)) =>
        /\ Rejected(secure.policies, secure.input) =>
              /\ ~secure.ran
              /\ secure.pc = "ready"
              /\ ~secure.result.success
              /\ secure.result.blocked
              /\ secure.result.error = ValidateInput(secure.policies, secure.input).message
              /\ secure.result.error.text \in {"Input contains blocked pattern",
                                               "Input exceeds maximum length"}
        /\ secure.ran => ~Rejected(secure.policies, secure.input)

\* an input that holds a blocked pattern in another case was blocked
C8_Witness ==
    /\ secure.pc = "ready"
    /\ secure.policies.blocked_patterns = << <<"A", "b">> >>
    /\ secure.input = <<"b", "a", "b">>
    /\ ~secure.ran
    /\ secure.result.blocked

C9_ReportCounts ==
    secure.pc # "idle" =>
        /\ GetAuditReport(secure.audit_log).total_interactions = secure.calls_returned
        /\ GetAuditReport(secure.audit_log).successful_interactions = secure.runs_succeeded

\* what one step may do to the audit log: nothing, or, when a call returns,
\* append one entry whose success flag tells whether the run succeeded
C9_OneEntryPerCall ==
    /\ secure.pc # "idle"
    /\ secure'.calls_returned = secure.calls_returned
          => secure'.audit_log = secure.audit_log
    /\ secure'.calls_returned # secure.calls_returned
          => /\ secure'.calls_returned = secure.calls_returned + 1
             /\ Len(secure'.audit_log) = Len(secure.audit_log) + 1
             /\ SubSeq(secure'.audit_log, 1, Len(secure.audit_log)) = secure.audit_log
             /\ secure'.audit_log[Len(secure'.audit_log)].success
                   = (secure'.runs_succeeded = secure.runs_succeeded + 1)

\* C9: every secure_execute call, blocked, successful or failed, appends
\* exactly one audit entry, successful only when the run succeeded; the
\* report's totals are the number of calls and of successful runs; entries
\* are never removed or rewritten.
C9_AuditLogComplete == []C9_ReportCounts /\ [][C9_OneEntryPerCall]_vars

\* three calls, one blocked although its caller's metadata said success,
\* one that ran and succeeded, one whose run raised
C9_Witness ==
    /\ secure.pc = "ready"
    /\ secure.calls_returned = 3
    /\ secure.audit_log = <<[success |-> FALSE], [success |-> TRUE], [success |-> FALSE]>>
    /\ secure.runs_succeeded = 1
    /\ secure.result.error.text = "Execution failed"
    /\ secure.metadata = [has_success |-> TRUE, success |-> TRUE]

(***************************************************************************)
(* filter_sensitive_data (chapter 5/04_handoff_input_filters.py).  A       *)
(* message content is a sequence of pieces: plain text, a piece one of     *)
(* the four regular expressions matches, or a redaction mark.  re.sub      *)
(* replaces every piece its pattern matches by the mark; the marks match   *)
(* no pattern.                                                             *)
(*   handoff.conversation_history  the argument                            *)
(*   handoff.filtered_history      the returned list                       *)
(***************************************************************************)
MaxFilterLen == 2
MaxContentLen == 1
MessageRoles == {"user", "assistant"}
Sensitive == {"card", "ssn", "phone", "email"}
Pieces == {"text"} \cup Sensitive

\* the replacement string of each pattern
Mark(pattern) ==
    CASE pattern = "card"  -> "[CARD-REDACTED]"
      [] pattern = "ssn"   -> "[SSN-REDACTED]"
      [] pattern = "phone" -> "[PHONE-REDACTED]"
      [] pattern = "email" -> "[EMAIL-REDACTED]"

\* re.sub(pattern, Mark(pattern), content)
ReSub(pattern, content) ==
    [i \in 1..Len(content) |-> IF content[i] = pattern THEN Mark(pattern) ELSE content[i]]

\* a filter that lost one of its substitutions
RedactWithoutPhone(content) == ReSub("email", ReSub("ssn", ReSub("card", content)))

\* the four substitutions, in the order of the code
Redact(content) == ReSub("email", ReSub("phone", ReSub("ssn", ReSub("card", content))))

\* the loop body: user messages are rebuilt with the redacted content,
\* every other message is appended as it is
FilterMessage(message) ==
    IF message.role = "user"
    THEN [message EXCEPT !.content = Redact(message.content)]
    ELSE message

FilterSensitiveData(conversation_history) ==
    [i \in 1..Len(conversation_history) |-> FilterMessage(conversation_history[i])]

InitHandoff ==
    /\ handoff \in [conversation_history :
                        SeqsUpTo([role : MessageRoles,
                                  content : SeqsUpTo(Pieces, MaxContentLen)], MaxFilterLen),
                    filtered_history : {<<>>},
                    pc : {"call"}]
    /\ startup = StartupIdle
    /\ retry = RetryIdle
    /\ conv = ConvIdle
    /\ optimizer = OptimizerIdle
    /\ manager = ManagerIdle
    /\ pools = PoolsIdle
    /\ secure = SecureIdle
    /\ mainagent = MainagentIdle
    /\ cache = CacheIdle
    /\ seqflow = SeqflowIdle
    /\ router = RouterIdle
    /\ email = EmailIdle
    /\ agentcfg = AgentcfgIdle
    /\ guardrail = GuardrailIdle
    /\ parallel = ParallelIdle

CallFilterSensitiveData ==
    /\ handoff.pc = "call"
    /\ handoff' = [handoff EXCEPT
                     !.filtered_history = FilterSensitiveData(handoff.conversation_history),
                     !.pc = "returned"]
    /\ UNCHANGED handoffOthers

NextHandoff == CallFilterSensitiveData

SpecHandoff == InitHandoff /\ [][NextHandoff]_vars

\* the content holds a piece one of the four patterns matches
HasSensitive(content) == \E i \in 1..Len(content) : content[i] \in Sensitive

\* C10 (as claimed): no message of the returned history, of any role,
\* contains a card number, SSN, phone number or e-mail address.
C10_NoSensitiveInAnyMessage ==
    handoff.pc = "returned" =>
        \A i \in 1..Len(handoff.filtered_history) :
            ~HasSensitive(handoff.filtered_history[i].content)

\* C10 (amended): the returned history has the messages of the input in
\* order; no user message of it contains a card number, SSN, phone number
\* or e-mail address, its other pieces kept; a message of any other role is
\* returned unchanged.
C10_NoSensitiveInUserMessages ==
    handoff.pc = "returned" =>
        /\ Len(handoff.filtered_history) = Len(handoff.conversation_history)
        /\ \A i \in 1..Len(handoff.filtered_history) :
              LET before == handoff.conversation_history[i]
                  after  == handoff.filtered_history[i]
              IN  /\ after.role = before.role
                  /\ before.role # "user" => after = before
                  /\ before.role = "user" =>
                        /\ ~HasSensitive(after.content)
                        /\ Len(after.content) = Len(before.content)
                        /\ \A j \in 1..Len(before.content) :
                              before.content[j] \notin Sensitive =>
                                  after.content[j] = before.content[j]

\* a user message with a phone number was redacted while an assistant
\* message with a card number was returned as it was
C10_Witness ==
    /\ handoff.pc = "returned"
    /\ handoff.conversation_history =
          <<[role |-> "user", content |-> <<"phone">>],
            [role |-> "assistant", content |-> <<"card">>]>>
    /\ handoff.filtered_history =
          <<[role |-> "user", content |-> <<"[PHONE-REDACTED]">>],
            [role |-> "assistant", content |-> <<"card">>]>>

(***************************************************************************)
(* MAIN AGENT AND ITS HAND-OFFS (chapter 5/04_handoff_input_filters.py).   *)
(* main_agent has two function tools and two hand-offs.  The SDK's run     *)
(* loop lets the agent's model choose, turn after turn, between calling a  *)
(* tool, handing the conversation off and answering.  A hand-off listed    *)
(* as a bare Agent has no input filter: the SDK gives the next agent the   *)
(* conversation as it is.                                                  *)
(***************************************************************************)
MaxQueryLen == 2
MaxToolCalls == 2

\* message.get(key): the value, or None when the key is absent
Get(message, key) == IF key \in DOMAIN message THEN message[key] ELSE "None"

FilterRemoveTools(conversation_history) ==
    LET Kept(message) == ~(Get(message, "tool_calls") # "None" \/ Get(message, "role") = "tool")
    IN  SelectSeq(conversation_history, Kept)

\* the conversation secure_handoff_to_financial makes up around its argument
FinancialSimulated(query) ==
    <<[role |-> "user", content |-> <<"text", "card", "text">>],
      [role |-> "assistant", content |-> <<"text">>],
      [role |-> "user", content |-> query]>>

\* the conversation secure_handoff_to_service makes up around its argument
ServiceSimulated(query) ==
    <<[role |-> "user", content |-> <<"text">>],
      [role |-> "assistant", content |-> <<"text">>, tool_calls |-> "get_account_info"],
      [role |-> "tool", content |-> <<"text">>],
      [role |-> "assistant", content |-> <<"text">>],
      [role |-> "user", content |-> query]>>

\* what a function tool leaves in the run's conversation: the call and the
\* string the tool returned
ToolItems(tool, returned) ==
    <<[role |-> "tool_call", content |-> <<tool>>],
      [role |-> "tool", content |-> <<returned>>]>>

\* what the next agent is given on a hand-off
HandoffInput(conversation) == conversation

InitMainAgent ==
    /\ mainagent \in [conversation : {<<[role |-> "user", content |-> q]>> :
                                         q \in SeqsUpTo(Pieces, MaxQueryLen)},
                      active : {"Main Agent"},
                      received : {<<>>},
                      filtered_conv : {<<>>},
                      tool_calls : {0},
                      pc : {"turn"}]
    /\ startup = StartupIdle
    /\ retry = RetryIdle
    /\ conv = ConvIdle
    /\ optimizer = OptimizerIdle
    /\ manager = ManagerIdle
    /\ pools = PoolsIdle
    /\ secure = SecureIdle
    /\ handoff = HandoffIdle
    /\ cache = CacheIdle
    /\ seqflow = SeqflowIdle
    /\ router = RouterIdle
    /\ email = EmailIdle
    /\ agentcfg = AgentcfgIdle
    /\ guardrail = GuardrailIdle
    /\ parallel = ParallelIdle

\* the tool filters a conversation of its own, prints it and returns a
\* string; the run's conversation gets the call and that string
SecureHandoffToFinancial ==
    /\ mainagent.pc = "turn"
    /\ mainagent.active = "Main Agent"
    /\ mainagent.tool_calls < MaxToolCalls
    /\ \E query \in SeqsUpTo(Pieces, 1) :
          mainagent' = [mainagent EXCEPT
              !.filtered_conv = FilterSensitiveData(FinancialSimulated(query)),
              !.conversation = @ \o ToolItems("secure_handoff_to_financial",
                                   "Handoff to financial advisor with filtered context"),
              !.tool_calls = @ + 1]
    /\ UNCHANGED mainagentOthers

SecureHandoffToService ==
    /\ mainagent.pc = "turn"
    /\ mainagent.active = "Main Agent"
    /\ mainagent.tool_calls < MaxToolCalls
    /\ \E query \in SeqsUpTo(Pieces, 1) :
          mainagent' = [mainagent EXCEPT
              !.filtered_conv = FilterRemoveTools(ServiceSimulated(query)),
              !.conversation = @ \o ToolItems("secure_handoff_to_service",
                                   "Handoff to customer service with tools removed"),
              !.tool_calls = @ + 1]
    /\ UNCHANGED mainagentOthers

\* handoffs=[financial_agent, customer_service_agent]: the run continues
\* with the chosen agent on the conversation so far
HandoffToFinancial ==
    /\ mainagent.pc = "turn"
    /\ mainagent.active = "Main Agent"
    /\ mainagent' = [mainagent EXCEPT
                       !.active = "Financial Advisor",
                       !.received = HandoffInput(mainagent.conversation)]
    /\ UNCHANGED mainagentOthers

HandoffToService ==
    /\ mainagent.pc = "turn"
    /\ mainagent.active = "Main Agent"
    /\ mainagent' = [mainagent EXCEPT
                       !.active = "Customer Service",
                       !.received = HandoffInput(mainagent.conversation)]
    /\ UNCHANGED mainagentOthers

\* the active agent gives the run's final output
FinalOutput ==
    /\ mainagent.pc = "turn"
    /\ mainagent' = [mainagent EXCEPT !.pc = "done"]
    /\ UNCHANGED mainagentOthers

NextMainAgent ==
    \/ SecureHandoffToFinancial
    \/ SecureHandoffToService
    \/ HandoffToFinancial
    \/ HandoffToService
    \/ FinalOutput

SpecMainAgent == InitMainAgent /\ [][NextMainAgent]_vars

\* C11: whenever Main Agent delegates a conversation to the Financial
\* Advisor, the conversation the Financial Advisor receives is the output of
\* filter_sensitive_data on it, so no user message it receives holds a card
\* number, SSN, phone number or e-mail address.
C11_FinancialReceivesFiltered ==
    (mainagent.pc # "idle" /\ mainagent.active = "Financial Advisor") =>
        /\ mainagent.received = FilterSensitiveData(mainagent.conversation)
        /\ \A i \in 1..Len(mainagent.received) :
              mainagent.received[i].role = "user" =>
                  ~HasSensitive(mainagent.received[i].content)

(***************************************************************************)
(* RESPONSE CACHE (chapter 1/chapter 2/19_token_optimization.py).          *)
(* batch_execute makes one execute_with_caching coroutine per query and    *)
(* gathers them.  The event loop starts the tasks in list order; a task    *)
(* runs from its start to `await Runner.run`, where it yields, and from    *)
(* the return of Runner.run to its end.                                    *)
(***************************************************************************)
NumQueries == 3

QueryTexts == {"What is 2+2?", "Capital of France?"}
Responses == {"r1", "r2"}
QuickAgentName == "Optimized_quick_responses"

\* hash(user_input): equal texts have equal hashes
Hash(user_input) == <<"hash", user_input>>

\* f"{agent.name}:{hash(user_input)}"
CacheKey(agent_name, user_input) == <<agent_name, Hash(user_input)>>

CacheKeys == {CacheKey(QuickAgentName, q) : q \in QueryTexts}

NotReturned == [response |-> "None", cached |-> FALSE]

InitCache ==
    /\ cache \in [queries : [1..NumQueries -> QueryTexts],
                  task : {[i \in 1..NumQueries |-> "new"]},
                  results : {[i \in 1..NumQueries |-> NotReturned]},
                  response_cache : {<<>>},
                  runs : {[k \in CacheKeys |-> 0]},
                  pc : {"gather"}]
    /\ startup = StartupIdle
    /\ retry = RetryIdle
    /\ conv = ConvIdle
    /\ optimizer = OptimizerIdle
    /\ manager = ManagerIdle
    /\ pools = PoolsIdle
    /\ secure = SecureIdle
    /\ handoff = HandoffIdle
    /\ mainagent = MainagentIdle
    /\ seqflow = SeqflowIdle
    /\ router = RouterIdle
    /\ email = EmailIdle
    /\ agentcfg = AgentcfgIdle
    /\ guardrail = GuardrailIdle
    /\ parallel = ParallelIdle

KeyOf(i) == CacheKey(QuickAgentName, cache.queries[i])

\* the tasks before i have all taken their first step
IsNextToStart(i) ==
    /\ cache.pc = "gather"
    /\ cache.task[i] = "new"
    /\ \A j \in 1..(i - 1) : cache.task[j] # "new"

\* `if cache_key in self.response_cache: return {..., "cached": True}`
CacheHit(i) ==
    /\ IsNextToStart(i)
    /\ KeyOf(i) \in DOMAIN cache.response_cache
    /\ cache' = [cache EXCEPT
                   !.task[i] = "done",
                   !.results[i] = [response |-> cache.response_cache[KeyOf(i)],
                                   cached |-> TRUE]]
    /\ UNCHANGED cacheOthers

\* the key is not cached: the task reaches `await Runner.run(agent, user_input)`
CacheMiss(i) ==
    /\ IsNextToStart(i)
    /\ KeyOf(i) \notin DOMAIN cache.response_cache
    /\ cache' = [cache EXCEPT
                   !.task[i] = "awaiting",
                   !.runs[KeyOf(i)] = @ + 1]
    /\ UNCHANGED cacheOthers

\* Runner.run returns: the response is cached and returned with cached False
CachedRunReturns(i) ==
    /\ cache.pc = "gather"
    /\ cache.task[i] = "awaiting"
    /\ \E final_output \in Responses :
          cache' = [cache EXCEPT
              !.task[i] = "done",
              !.response_cache = [k \in DOMAIN @ \cup {KeyOf(i)} |->
                                     IF k = KeyOf(i) THEN final_output ELSE @[k]],
              !.results[i] = [response |-> final_output, cached |-> FALSE]]
    /\ UNCHANGED cacheOthers

\* Runner.run raises: nothing is cached, gather hands the exception to
\* batch_execute
CachedRunRaises(i) ==
    /\ cache.pc = "gather"
    /\ cache.task[i] = "awaiting"
    /\ cache' = [cache EXCEPT !.task[i] = "raised", !.pc = "raised"]
    /\ UNCHANGED cacheOthers

\* every task is done: batch_execute returns the results
BatchReturns ==
    /\ cache.pc = "gather"
    /\ \A i \in 1..NumQueries : cache.task[i] = "done"
    /\ cache' = [cache EXCEPT !.pc = "returned"]
    /\ UNCHANGED cacheOthers

NextCache ==
    \/ \E i \in 1..NumQueries : CacheHit(i)
    \/ \E i \in 1..NumQueries : CacheMiss(i)
    \/ \E i \in 1..NumQueries : CachedRunReturns(i)
    \/ \E i \in 1..NumQueries : CachedRunRaises(i)
    \/ BatchReturns

SpecCache == InitCache /\ [][NextCache]_vars

\* C12: for a given agent name and input text Runner.run is executed at most
\* once, and every other execute_with_caching call with the same pair, a
\* duplicate query of the same batch included, returns cached = True.
C12_RunAtMostOncePerPair ==
    cache.pc # "idle" =>
        /\ \A k \in CacheKeys : cache.runs[k] <= 1
        /\ \A i, j \in 1..NumQueries :
              (/\ i # j
               /\ KeyOf(i) = KeyOf(j)
               /\ cache.task[i] = "done"
               /\ cache.task[j] = "done")
              => (cache.results[i].cached \/ cache.results[j].cached)

(***************************************************************************)
(* SEQUENTIAL WORKFLOW (chapter 5/08_sequential_processing.py).            *)
(* An agent's output is a string given by its first 100 characters (head)  *)
(* and the rest (tail); a prompt is the record of the parts the f-string   *)
(* puts together.  context.stage_results is a dict: a sequence of          *)
(* <<name, result>> pairs in insertion order.  The fields started,         *)
(* completed, prompts and outputs record what has happened.                *)
(***************************************************************************)
SeqAgents == <<"Research Agent", "Analysis Agent", "Writer Agent", "Editor Agent">>

StageOutputs == [head : {"h1", "h2"}, tail : {"", "t"}]
InitialInputs == {[head |-> "topic", tail |-> ""], [head |-> "topic", tail |-> "t"]}

\* result[:100]
First100(result) == result.head

\* d[key] = value on an insertion-ordered dict
DictSet(dict, key, value) ==
    IF \E k \in 1..Len(dict) : dict[k][1] = key
    THEN [k \in 1..Len(dict) |-> IF dict[k][1] = key THEN <<key, value>> ELSE dict[k]]
    ELSE Append(dict, <<key, value>>)

DictKeys(dict) == {dict[k][1] : k \in 1..Len(dict)}

DictGet(dict, key) == (CHOOSE k \in 1..Len(dict) : dict[k][1] = key)

\* the "- {name}: {result[:100]}..." lines of a prompt
StageLines(context) ==
    [k \in 1..Len(context.stage_results) |->
        [name |-> context.stage_results[k][1],
         result |-> First100(context.stage_results[k][2])]]

\* a variant that always builds the prompt from the workflow's first input
BuildPromptFromInitialInput(i, current_input, context) ==
    IF i = 1
    THEN [text |-> "Research this topic: ", topic |-> "", stage_lines |-> <<>>,
          current_input |-> seqflow.initial_input]
    ELSE [text |-> "Continue the workflow for topic: ", topic |-> context.topic,
          stage_lines |-> StageLines(context),
          current_input |-> seqflow.initial_input]

\* the prompt of the i-th agent, by the fields the f-string puts together
BuildPrompt(i, current_input, context) ==
    IF i = 1
    THEN [text |-> "Research this topic: ", topic |-> "", stage_lines |-> <<>>,
          current_input |-> current_input]
    ELSE [text |-> "Continue the workflow for topic: ", topic |-> context.topic,
          stage_lines |-> StageLines(context),
          current_input |-> current_input]

\* WorkflowContext.add_stage_result (the completed_at timestamp in metadata
\* is left out)
AddStageResult(context, agent_name, result) ==
    [context EXCEPT !.stage_results = DictSet(@, agent_name, result)]

InitSeqflow ==
    /\ seqflow \in [initial_input : InitialInputs,
                    current_input : InitialInputs,
                    context : [topic : {"AI"},
                               stage_results : {<<>>, <<<<"Editor Agent", [head |-> "h1", tail |-> ""]>>>>}],
                    i : {1},
                    started : {<<>>},
                    completed : {<<>>},
                    prompts : {<<>>},
                    outputs : {<<>>},
                    ret : {"None"},
                    pc : {"loop"}]
    /\ seqflow.current_input = seqflow.initial_input
    /\ startup = StartupIdle
    /\ retry = RetryIdle
    /\ conv = ConvIdle
    /\ optimizer = OptimizerIdle
    /\ manager = ManagerIdle
    /\ pools = PoolsIdle
    /\ secure = SecureIdle
    /\ handoff = HandoffIdle
    /\ mainagent = MainagentIdle
    /\ cache = CacheIdle
    /\ router = RouterIdle
    /\ email = EmailIdle
    /\ agentcfg = AgentcfgIdle
    /\ guardrail = GuardrailIdle
    /\ parallel = ParallelIdle

\* the loop body up to `await Runner.run(agent, prompt)`
StartAgent ==
    /\ seqflow.pc = "loop"
    /\ seqflow.i <= Len(SeqAgents)
    /\ seqflow' = [seqflow EXCEPT
                     !.started = Append(@, SeqAgents[seqflow.i]),
                     !.prompts = Append(@, BuildPrompt(seqflow.i, seqflow.current_input,
                                                       seqflow.context)),
                     !.pc = "awaiting"]
    /\ UNCHANGED seqflowOthers

\* Runner.run returns: the output becomes the next input and a stage result
AgentCompletes ==
    /\ seqflow.pc = "awaiting"
    /\ \E final_output \in StageOutputs :
          seqflow' = [seqflow EXCEPT
              !.current_input = final_output,
              !.context = AddStageResult(@, SeqAgents[seqflow.i], final_output),
              !.completed = Append(@, SeqAgents[seqflow.i]),
              !.outputs = Append(@, final_output),
              !.i = @ + 1,
              !.pc = "loop"]
    /\ UNCHANGED seqflowOthers

\* Runner.run raises: nothing catches it, sequential_workflow raises
AgentRaises ==
    /\ seqflow.pc = "awaiting"
    /\ seqflow' = [seqflow EXCEPT !.pc = "raised"]
    /\ UNCHANGED seqflowOthers

\* the loop is over: `return current_input`
WorkflowReturns ==
    /\ seqflow.pc = "loop"
    /\ seqflow.i > Len(SeqAgents)
    /\ seqflow' = [seqflow EXCEPT !.ret = seqflow.current_input, !.pc = "returned"]
    /\ UNCHANGED seqflowOthers

NextSeqflow ==
    \/ StartAgent
    \/ AgentCompletes
    \/ AgentRaises
    \/ WorkflowReturns

SpecSeqflow == InitSeqflow /\ [][NextSeqflow]_vars

\* s is the beginning of t
IsPrefixOf(s, t) == Len(s) <= Len(t) /\ SubSeq(t, 1, Len(s)) = s

\* the prompt has the whole of the output in it (a stage line has only its
\* first 100 characters)
PromptContains(prompt, output) == prompt.current_input = output

C13_Order ==
    seqflow.pc # "idle" =>
        /\ IsPrefixOf(seqflow.started, SeqAgents)
        /\ IsPrefixOf(seqflow.completed, seqflow.started)
        /\ Len(seqflow.started) <= Len(seqflow.completed) + 1
        /\ \A k \in 2..Len(seqflow.started) :
              PromptContains(seqflow.prompts[k], seqflow.outputs[k - 1])
        /\ seqflow.pc = "returned" =>
              /\ \A k \in 1..Len(SeqAgents) :
                    /\ Cardinality({n \in 1..Len(seqflow.context.stage_results) :
                          seqflow.context.stage_results[n][1] = SeqAgents[k]}) = 1
                    /\ seqflow.context.stage_results[
                          DictGet(seqflow.context.stage_results, SeqAgents[k])][2]
                          = seqflow.outputs[k]
              /\ DictKeys(seqflow.context.stage_results) = {SeqAgents[k] : k \in 1..Len(SeqAgents)}
              /\ seqflow.ret = seqflow.outputs[Len(SeqAgents)]

C13_NothingAfterException ==
    seqflow.pc = "raised" => seqflow' = seqflow

\* C13: the four agents run strictly in the order Research, Analysis, Writer,
\* Editor; an agent is started only after the one before it has completed
\* and its prompt contains that agent's output; after an exception in one
\* agent no later agent runs; on normal return stage_results holds one entry
\* per agent, that agent's output, and the returned value is the Editor
\* Agent's output.
C13_SequentialOrder == []C13_Order /\ [][C13_NothingAfterException]_vars

\* the workflow returned on a context that already held an Editor Agent entry
\* and the Writer Agent's output differs from the Editor Agent's
C13_Witness ==
    /\ seqflow.pc = "returned"
    /\ Len(seqflow.completed) = 4
    /\ seqflow.outputs[3] # seqflow.outputs[4]
    /\ seqflow.outputs[1].tail = "t"
    /\ Len(seqflow.context.stage_results) = 4
    /\ seqflow.context.stage_results[1][1] = "Editor Agent"

(***************************************************************************)
(* CONDITIONAL ROUTING (chapter 5/10_conditional_routing.py).              *)
(* The processor's response is a sequence of tokens: the five outcome      *)
(* keywords and "text" for anything else.  `keyword in processor_response` *)
(* is true when the keyword is anywhere in the response.                   *)
(***************************************************************************)
MaxResponseTokens == 2

Outcomes == {"SUCCESS_HIGH", "SUCCESS_MEDIUM", "NEEDS_REVIEW", "REQUIRES_ESCALATION", "ERROR"}
ResponseTokens == Outcomes \cup {"text"}
ProcessorResponses == SeqsUpTo(ResponseTokens, MaxResponseTokens) \ {<<>>}
AgentOutputs == {"o1", "o2"}

\* keyword in processor_response
InResponse(keyword, processor_response) ==
    \E k \in 1..Len(processor_response) : processor_response[k] = keyword

\* the if/elif chain that extracts the outcome
ExtractOutcome(processor_response) ==
    IF InResponse("SUCCESS_HIGH", processor_response) THEN "SUCCESS_HIGH"
    ELSE IF InResponse("SUCCESS_MEDIUM", processor_response) THEN "SUCCESS_MEDIUM"
    ELSE IF InResponse("NEEDS_REVIEW", processor_response) THEN "NEEDS_REVIEW"
    ELSE IF InResponse("REQUIRES_ESCALATION", processor_response) THEN "REQUIRES_ESCALATION"
    ELSE IF InResponse("ERROR", processor_response) THEN "ERROR"
    ELSE "SUCCESS_MEDIUM"

\* the agent the if/elif chain of step 2 runs first for an outcome
FirstAgentFor(outcome) ==
    IF outcome = "SUCCESS_HIGH" THEN "Finalizer Agent"
    ELSE IF outcome = "SUCCESS_MEDIUM" THEN "Reviewer Agent"
    ELSE IF outcome = "NEEDS_REVIEW" THEN "Human Review Agent"
    ELSE IF outcome = "REQUIRES_ESCALATION" THEN "Supervisor Agent"
    ELSE "Error Handler Agent"

InitRouter ==
    /\ router \in [processor_response : {<<>>},
                   outcome : {"None"},
                   ran : {<<>>},
                   outputs : {<<>>},
                   finalizer_input : {"None"},
                   ret : {"None"},
                   pc : {"start"}]
    /\ startup = StartupIdle
    /\ retry = RetryIdle
    /\ conv = ConvIdle
    /\ optimizer = OptimizerIdle
    /\ manager = ManagerIdle
    /\ pools = PoolsIdle
    /\ secure = SecureIdle
    /\ handoff = HandoffIdle
    /\ mainagent = MainagentIdle
    /\ cache = CacheIdle
    /\ seqflow = SeqflowIdle
    /\ email = EmailIdle
    /\ agentcfg = AgentcfgIdle
    /\ guardrail = GuardrailIdle
    /\ parallel = ParallelIdle

\* step 1 up to `await Runner.run(processor_agent, ...)`
CallProcessor ==
    /\ router.pc = "start"
    /\ router' = [router EXCEPT !.ran = <<"Processor Agent">>, !.pc = "await_processor"]
    /\ UNCHANGED routerOthers

\* the processor answers: the outcome is extracted and the first agent of
\* its route is called
ProcessorReturns ==
    /\ router.pc = "await_processor"
    /\ \E processor_response \in ProcessorResponses :
          LET outcome == ExtractOutcome(processor_response)
          IN  router' = [router EXCEPT
                  !.processor_response = processor_response,
                  !.outcome = outcome,
                  !.ran = Append(@, FirstAgentFor(outcome)),
                  !.pc = IF outcome = "SUCCESS_MEDIUM" THEN "await_review"
                         ELSE "await_final"]
    /\ UNCHANGED routerOthers

\* the reviewer answers: the finalizer is called on the review
ReviewerReturns ==
    /\ router.pc = "await_review"
    /\ \E final_output \in AgentOutputs :
          router' = [router EXCEPT
              !.outputs = Append(@, final_output),
              !.finalizer_input = final_output,
              !.ran = Append(@, "Finalizer Agent"),
              !.pc = "await_final"]
    /\ UNCHANGED routerOthers

\* the last agent of the route answers: `return final_result.final_output`
FinalAgentReturns ==
    /\ router.pc = "await_final"
    /\ \E final_output \in AgentOutputs :
          router' = [router EXCEPT
              !.outputs = Append(@, final_output),
              !.ret = final_output,
              !.pc = "returned"]
    /\ UNCHANGED routerOthers

\* any of the awaited runs raises: conditional_workflow raises
RoutedRunRaises ==
    /\ router.pc \in {"await_processor", "await_review", "await_final"}
    /\ router' = [router EXCEPT !.pc = "raised"]
    /\ UNCHANGED routerOthers

NextRouter ==
    \/ CallProcessor
    \/ ProcessorReturns
    \/ ReviewerReturns
    \/ FinalAgentReturns
    \/ RoutedRunRaises

SpecRouter == InitRouter /\ [][NextRouter]_vars

\* the agents the claim has run after the processor for an outcome
RouteOf(outcome) ==
    IF outcome = "SUCCESS_HIGH" THEN <<"Finalizer Agent">>
    ELSE IF outcome = "SUCCESS_MEDIUM" THEN <<"Reviewer Agent", "Finalizer Agent">>
    ELSE IF outcome = "NEEDS_REVIEW" THEN <<"Human Review Agent">>
    ELSE IF outcome = "REQUIRES_ESCALATION" THEN <<"Supervisor Agent">>
    ELSE <<"Error Handler Agent">>

\* C14: the Processor Agent runs first, then the one route of the outcome the
\* processor's response starts with is taken, and the returned value is the
\* output of the last agent of that route.
C14_RoutesByLeadingOutcome ==
    (router.pc = "returned" /\ router.processor_response[1] \in Outcomes) =>
        /\ router.ran = <<"Processor Agent">> \o RouteOf(router.processor_response[1])
        /\ router.ret = router.outputs[Len(router.outputs)]

(***************************************************************************)
(* E-MAIL VALIDATION (chapter 3/my-agent-project/src/my_agents/tools/      *)
(* validation.py).  The characters stand for the classes the pattern tells *)
(* apart: "a" a letter, "1" a digit, "." the dot, "+" one of _ % + (in the *)
(* local class only), "@", and "\n" the newline, which is in no class.     *)
(***************************************************************************)
MaxEmailLen == 7

EmailChars == {"a", "1", ".", "+", "@", "\n"}
LetterClass == {"a"}
LocalClass == {"a", "1", ".", "+"}
DomainClass == {"a", "1", "."}

\* every character of s[from..to] is in class
AllIn(s, from, to, class) == \A k \in from..to : s[k] \in class

\* where `$` can match: at the end of the string and just before a newline
\* that ends the string
DollarPositions(s) ==
    {Len(s)} \cup (IF Len(s) > 0 /\ s[Len(s)] = "\n" THEN {Len(s) - 1} ELSE {})

\* re.match(r'^[a-zA-Z0-9._%+-]+@[a-zA-Z0-9.-]+\.[a-zA-Z]{2,}$', s): the
\* pattern matches s[1..end] for an end where `$` matches
ReMatchAt(s, end) ==
    \E at \in 2..end : \E dot \in (at + 2)..(end - 2) :
        /\ AllIn(s, 1, at - 1, LocalClass)
        /\ s[at] = "@"
        /\ AllIn(s, at + 1, dot - 1, DomainClass)
        /\ s[dot] = "."
        /\ AllIn(s, dot + 1, end, LetterClass)

ReMatch(s) == \E end \in DollarPositions(s) : ReMatchAt(s, end)

ValidateEmail(address) == [is_valid_format |-> ReMatch(address), email |-> address]

InitEmail ==
    /\ email \in [input : SeqsUpTo(EmailChars, MaxEmailLen),
                  result : {[is_valid_format |-> FALSE, email |-> <<>>]},
                  pc : {"call"}]
    /\ startup = StartupIdle
    /\ retry = RetryIdle
    /\ conv = ConvIdle
    /\ optimizer = OptimizerIdle
    /\ manager = ManagerIdle
    /\ pools = PoolsIdle
    /\ secure = SecureIdle
    /\ handoff = HandoffIdle
    /\ mainagent = MainagentIdle
    /\ cache = CacheIdle
    /\ seqflow = SeqflowIdle
    /\ router = RouterIdle
    /\ agentcfg = AgentcfgIdle
    /\ guardrail = GuardrailIdle
    /\ parallel = ParallelIdle

CallValidateEmail ==
    /\ email.pc = "call"
    /\ email' = [email EXCEPT !.result = ValidateEmail(email.input), !.pc = "returned"]
    /\ UNCHANGED emailOthers

NextEmail == CallValidateEmail

SpecEmail == InitEmail /\ [][NextEmail]_vars

\* s is local@domain.tld: a non-empty local part, "@", a non-empty domain,
\* ".", and a final label of at least two letters that ends the string
HasEmailShape(s) ==
    \E at \in 1..Len(s) : \E dot \in 1..Len(s) :
        /\ s[at] = "@"
        /\ at > 1
        /\ AllIn(s, 1, at - 1, LocalClass)
        /\ dot > at + 1
        /\ AllIn(s, at + 1, dot - 1, DomainClass)
        /\ s[dot] = "."
        /\ Len(s) - dot >= 2
        /\ AllIn(s, dot + 1, Len(s), LetterClass)

\* C15: validate_email returns is_valid_format = true exactly for strings of
\* the shape local@domain.tld (non-empty local part, non-empty domain, final
\* label of at least two letters); a string with no "@", an empty local part
\* or nothing after the "@" is invalid; the result echoes the input.
C15_ValidExactlyForEmailShape ==
    email.pc = "returned" =>
        /\ email.result.is_valid_format <=> HasEmailShape(email.input)
        /\ email.result.email = email.input

(***************************************************************************)
(* AGENT CONFIGURATION (chapter 3/my-agent-project/src: base.py,           *)
(* config/setting.py, my_agents/specialized/customer_support.py).          *)
(* Temperatures are in tenths (7 is 0.7).  An optional argument is a       *)
(* record: given is FALSE for an omitted argument (None).  The settings    *)
(* object is built at import time from the environment.                    *)
(***************************************************************************)
DefaultModelField == "gpt-4o"
DefaultTemperatureField == 7

ModelNames == {"", "gpt-4o", "gpt-4o-mini"}
Temperatures == {0, 3, 10}
Omitted(value) == [given |-> FALSE, value |-> value]
Given(value) == [given |-> TRUE, value |-> value]
ModelArgs == {Omitted("")} \cup {Given(m) : m \in ModelNames}
TemperatureArgs == {Omitted(0)} \cup {Given(t) : t \in Temperatures}

\* the environment: DEFAULT_MODEL and DEFAULT_TEMPERATURE unset or set
EnvModels == {Omitted("")} \cup {Given("gpt-4o-mini")}
EnvTemperatures == {Omitted(0)} \cup {Given(3)}

\* Field(default, alias=...): the environment's value, or the default
Field(default, env) == IF env.given THEN env.value ELSE default

Settings(env_model, env_temperature) ==
    [default_model |-> Field(DefaultModelField, env_model),
     default_temperature |-> Field(DefaultTemperatureField, env_temperature)]

\* model or default: None and "" are false
ModelOrDefault(model, default) ==
    IF model.given /\ model.value # "" THEN model.value ELSE default

\* temperature or default: None and 0.0 are false
TemperatureOrDefault(temperature, default) ==
    IF temperature.given /\ temperature.value # 0 THEN temperature.value ELSE default

\* BaseAgent.__init__
BaseAgentInit(name, model, temperature, tools, settings) ==
    [name |-> name,
     model |-> ModelOrDefault(model, settings.default_model),
     temperature |-> TemperatureOrDefault(temperature, settings.default_temperature),
     tools |-> tools]

\* CustomerSupportAgent.__init__
CustomerSupportAgentInit(name, model, temperature, settings) ==
    BaseAgentInit(name, model, temperature, <<"get_product_info">>, settings)

InitAgentcfg ==
    /\ agentcfg \in [class : {"BaseAgent", "CustomerSupportAgent"},
                     name : {Omitted("Customer Support"), Given("Helper")},
                     model : ModelArgs,
                     temperature : TemperatureArgs,
                     settings : {Settings(m, t) : m \in EnvModels, t \in EnvTemperatures},
                     env_model : EnvModels,
                     agent : {[name |-> "", model |-> "", temperature |-> 0, tools |-> <<>>]},
                     pc : {"construct"}]
    /\ agentcfg.settings.default_model = Field(DefaultModelField, agentcfg.env_model)
    /\ agentcfg.class = "BaseAgent" => agentcfg.name.given
    /\ startup = StartupIdle
    /\ retry = RetryIdle
    /\ conv = ConvIdle
    /\ optimizer = OptimizerIdle
    /\ manager = ManagerIdle
    /\ pools = PoolsIdle
    /\ secure = SecureIdle
    /\ handoff = HandoffIdle
    /\ mainagent = MainagentIdle
    /\ cache = CacheIdle
    /\ seqflow = SeqflowIdle
    /\ router = RouterIdle
    /\ email = EmailIdle
    /\ guardrail = GuardrailIdle
    /\ parallel = ParallelIdle

\* BaseAgent(name, instructions, model, temperature) with no tools
ConstructBaseAgent ==
    /\ agentcfg.pc = "construct"
    /\ agentcfg.class = "BaseAgent"
    /\ agentcfg' = [agentcfg EXCEPT
                      !.agent = BaseAgentInit(agentcfg.name.value, agentcfg.model,
                                              agentcfg.temperature, <<>>, agentcfg.settings),
                      !.pc = "constructed"]
    /\ UNCHANGED agentcfgOthers

\* CustomerSupportAgent(name, instructions, model, temperature)
ConstructCustomerSupportAgent ==
    /\ agentcfg.pc = "construct"
    /\ agentcfg.class = "CustomerSupportAgent"
    /\ agentcfg' = [agentcfg EXCEPT
                      !.agent = CustomerSupportAgentInit(agentcfg.name.value, agentcfg.model,
                                                         agentcfg.temperature, agentcfg.settings),
                      !.pc = "constructed"]
    /\ UNCHANGED agentcfgOthers

NextAgentcfg ==
    \/ ConstructBaseAgent
    \/ ConstructCustomerSupportAgent

SpecAgentcfg == InitAgentcfg /\ [][NextAgentcfg]_vars

\* C16: an agent uses an explicitly supplied model and temperature whenever
\* one is passed, temperature 0.0 included, and falls back to the settings'
\* defaults only when the argument is omitted; a CustomerSupportAgent built
\* with no arguments has name "Customer Support", model "gpt-4o-mini" as the
\* default from settings, and exactly one tool.
C16_ConfigurationResolution ==
    agentcfg.pc = "constructed" =>
        /\ agentcfg.model.given => agentcfg.agent.model = agentcfg.model.value
        /\ ~agentcfg.model.given => agentcfg.agent.model = agentcfg.settings.default_model
        /\ agentcfg.temperature.given =>
              agentcfg.agent.temperature = agentcfg.temperature.value
        /\ ~agentcfg.temperature.given =>
              agentcfg.agent.temperature = agentcfg.settings.default_temperature
        /\ (/\ agentcfg.class = "CustomerSupportAgent"
            /\ ~agentcfg.name.given
            /\ ~agentcfg.model.given
            /\ ~agentcfg.temperature.given)
           => /\ agentcfg.agent.name = "Customer Support"
              /\ agentcfg.agent.model = "gpt-4o-mini"
              /\ Len(agentcfg.agent.tools) = 1

(***************************************************************************)
(* HEALTHCARE INPUT GUARDRAIL (chapter 4/04_custom_guardrails.py).         *)
(* The compliance agent's final output is a HealthcareComplianceResult;    *)
(* the log field holds the levels of the logger calls made so far.         *)
(***************************************************************************)
RiskLevels == {"low", "medium", "high"}
ViolationTypes == {"None", "medical_advice", "diagnosis_request"}
GuardrailInputs == {"What is a healthy diet?", "Do I have diabetes?", "How many mg should I take?"}

\* what the compliance agent can answer
ComplianceResults ==
    [is_compliant : BOOLEAN,
     violation_type : ViolationTypes,
     risk_level : RiskLevels,
     recommendations : {<<>>},
     requires_disclaimer : BOOLEAN]

\* the result validate_healthcare_input makes up when the agent call raises
FailSafeResult ==
    [is_compliant |-> FALSE,
     violation_type |-> "validation_error",
     risk_level |-> "medium",
     recommendations |-> <<"Manual review required">>,
     requires_disclaimer |-> TRUE]

\* a variant that blocks every non-compliant request
TripwireOnAnyViolation(compliance_result) == ~compliance_result.is_compliant

\* the tripwire_triggered of the guardrail's output
Tripwire(compliance_result) ==
    IF ~compliance_result.is_compliant
    THEN (IF compliance_result.risk_level = "high" THEN TRUE ELSE FALSE)
    ELSE FALSE

NoGuardrailOutput == [output_info |-> "None", tripwire_triggered |-> FALSE]

InitGuardrail ==
    /\ guardrail \in [input_data : GuardrailInputs,
                      compliance_result : {"None"},
                      run_raised : {FALSE},
                      log : {<<>>},
                      output : {NoGuardrailOutput},
                      pc : {"start"}]
    /\ startup = StartupIdle
    /\ retry = RetryIdle
    /\ conv = ConvIdle
    /\ optimizer = OptimizerIdle
    /\ manager = ManagerIdle
    /\ pools = PoolsIdle
    /\ secure = SecureIdle
    /\ handoff = HandoffIdle
    /\ mainagent = MainagentIdle
    /\ cache = CacheIdle
    /\ seqflow = SeqflowIdle
    /\ router = RouterIdle
    /\ email = EmailIdle
    /\ agentcfg = AgentcfgIdle
    /\ parallel = ParallelIdle

\* healthcare_input_guardrail up to the await inside validate_healthcare_input
CallValidateHealthcareInput ==
    /\ guardrail.pc = "start"
    /\ guardrail' = [guardrail EXCEPT !.log = Append(@, "info"), !.pc = "await_compliance"]
    /\ UNCHANGED guardrailOthers

\* try: result = await Runner.run(...); return result.final_output
ComplianceRunReturns ==
    /\ guardrail.pc = "await_compliance"
    /\ \E final_output \in ComplianceResults :
          guardrail' = [guardrail EXCEPT !.compliance_result = final_output,
                                         !.pc = "validated"]
    /\ UNCHANGED guardrailOthers

\* except Exception: log the error and return the fail-safe result
ComplianceRunRaises ==
    /\ guardrail.pc = "await_compliance"
    /\ guardrail' = [guardrail EXCEPT !.compliance_result = FailSafeResult,
                                      !.run_raised = TRUE,
                                      !.log = Append(@, "error"),
                                      !.pc = "validated"]
    /\ UNCHANGED guardrailOthers

\* the rest of healthcare_input_guardrail
GuardrailReturns ==
    /\ guardrail.pc = "validated"
    /\ guardrail' = [guardrail EXCEPT
                       !.log = IF ~guardrail.compliance_result.is_compliant
                               THEN Append(@, "warning") ELSE @,
                       !.output = [output_info |-> guardrail.compliance_result,
                                   tripwire_triggered |-> Tripwire(guardrail.compliance_result)],
                       !.pc = "returned"]
    /\ UNCHANGED guardrailOthers

NextGuardrail ==
    \/ CallValidateHealthcareInput
    \/ ComplianceRunReturns
    \/ ComplianceRunRaises
    \/ GuardrailReturns

SpecGuardrail == InitGuardrail /\ [][NextGuardrail]_vars

Warned == \E k \in 1..Len(guardrail.log) : guardrail.log[k] = "warning"

\* C17: the tripwire is triggered exactly when the compliance result is
\* non-compliant with risk_level "high"; when the compliance agent call
\* raises, the exception is not propagated: the guardrail goes on with a
\* non-compliant result of violation_type "validation_error" and handles it
\* as any non-compliant result (the violation is logged, the tripwire follows
\* the risk level).
C17_TripwireAndFailSafe ==
    /\ guardrail.pc = "returned" =>
          /\ guardrail.output.output_info = guardrail.compliance_result
          /\ guardrail.output.tripwire_triggered <=>
                (/\ ~guardrail.compliance_result.is_compliant
                 /\ guardrail.compliance_result.risk_level = "high")
          /\ Warned <=> ~guardrail.compliance_result.is_compliant
    /\ (guardrail.pc # "idle" /\ guardrail.run_raised) =>
          /\ guardrail.pc \in {"validated", "returned"}
          /\ ~guardrail.compliance_result.is_compliant
          /\ guardrail.compliance_result.violation_type = "validation_error"

\* the agent call raised and the guardrail returned the fail-safe result
\* without triggering the tripwire
C17_Witness ==
    /\ guardrail.pc = "returned"
    /\ guardrail.run_raised
    /\ guardrail.output.output_info = FailSafeResult
    /\ ~guardrail.output.tripwire_triggered
    /\ Warned

\* a non-compliant high-risk answer triggered the tripwire
C17_WitnessTripped ==
    /\ guardrail.pc = "returned"
    /\ ~guardrail.run_raised
    /\ guardrail.output.tripwire_triggered

(***************************************************************************)
(* PARALLEL WORKFLOW (chapter 5/09_parallel_processing.py).                *)
(* Four Runner.run coroutines are gathered; they complete in any order.    *)
(* final_outputs[i] is what the i-th run produced, completion_order the    *)
(* order the runs completed in.  context.parallel_results and              *)
(* context.execution_times are dicts in insertion order.                   *)
(***************************************************************************)
Researchers ==
    <<"Market Researcher", "Tech Researcher", "Social Researcher", "Competitive Researcher">>
AgentNamesList ==
    <<"Market Researcher", "Tech Researcher", "Social Researcher", "Competitive Researcher">>
ResearchOutputs == {"o1", "o2"}

\* a variant that hands the outputs over in the order the runs completed
ResultsInCompletionOrder(final_outputs, completion_order) ==
    [k \in 1..Len(completion_order) |-> final_outputs[completion_order[k]]]

\* asyncio.gather(*tasks): the outputs in the order of the tasks
GatherResults(final_outputs, completion_order) ==
    [k \in 1..Len(completion_order) |-> final_outputs[k]]

RECURSIVE AddResults(_, _, _, _)
\* the loop over zip(agent_names, results) from its k-th pair on, each pair
\* through ParallelContext.add_result
AddResults(context, agent_names, results, k) ==
    IF k > Len(agent_names) \/ k > Len(results) THEN context
    ELSE AddResults(
             [context EXCEPT
                 !.parallel_results = DictSet(@, agent_names[k], results[k]),
                 !.execution_times = DictSet(@, agent_names[k], "total_time / 4")],
             agent_names, results, k + 1)

ParallelContexts ==
    {[parallel_results |-> <<>>, execution_times |-> <<>>],
     [parallel_results |-> <<<<"Tech Researcher", "o1">>>>,
      execution_times |-> <<<<"Tech Researcher", "total_time / 4">>>>]}

InitParallel ==
    /\ parallel \in [context : ParallelContexts,
                     initial_context : ParallelContexts,
                     task : {[i \in 1..Len(Researchers) |-> "new"]},
                     final_outputs : {[i \in 1..Len(Researchers) |-> "None"]},
                     completion_order : {<<>>},
                     ret : {"None"},
                     pc : {"start"}]
    /\ parallel.initial_context = parallel.context
    /\ startup = StartupIdle
    /\ retry = RetryIdle
    /\ conv = ConvIdle
    /\ optimizer = OptimizerIdle
    /\ manager = ManagerIdle
    /\ pools = PoolsIdle
    /\ secure = SecureIdle
    /\ handoff = HandoffIdle
    /\ mainagent = MainagentIdle
    /\ cache = CacheIdle
    /\ seqflow = SeqflowIdle
    /\ router = RouterIdle
    /\ email = EmailIdle
    /\ agentcfg = AgentcfgIdle
    /\ guardrail = GuardrailIdle

\* the four coroutines are made and gathered: all four runs are under way
StartGather ==
    /\ parallel.pc = "start"
    /\ parallel' = [parallel EXCEPT
                      !.task = [i \in 1..Len(Researchers) |-> "running"],
                      !.pc = "gather"]
    /\ UNCHANGED parallelOthers

\* the i-th researcher's run completes
ResearcherCompletes(i) ==
    /\ parallel.pc = "gather"
    /\ parallel.task[i] = "running"
    /\ \E final_output \in ResearchOutputs :
          parallel' = [parallel EXCEPT
              !.task[i] = "done",
              !.final_outputs[i] = final_output,
              !.completion_order = Append(@, i)]
    /\ UNCHANGED parallelOthers

\* the i-th researcher's run raises: gather raises, and so does
\* parallel_workflow
ResearcherRaises(i) ==
    /\ parallel.pc = "gather"
    /\ parallel.task[i] = "running"
    /\ parallel' = [parallel EXCEPT !.task[i] = "raised", !.pc = "raised"]
    /\ UNCHANGED parallelOthers

\* gather returns: the results are stored under agent_names and the dict is
\* returned
CollectResults ==
    /\ parallel.pc = "gather"
    /\ \A i \in 1..Len(Researchers) : parallel.task[i] = "done"
    /\ LET results == GatherResults(parallel.final_outputs, parallel.completion_order)
           context == AddResults(parallel.context, AgentNamesList, results, 1)
       IN  parallel' = [parallel EXCEPT
               !.context = context,
               !.ret = context.parallel_results,
               !.pc = "returned"]
    /\ UNCHANGED parallelOthers

NextParallel ==
    \/ StartGather
    \/ \E i \in 1..Len(Researchers) : ResearcherCompletes(i)
    \/ \E i \in 1..Len(Researchers) : ResearcherRaises(i)
    \/ CollectResults

SpecParallel == InitParallel /\ [][NextParallel]_vars

\* C18: whatever order the four runs complete in, each run's final output is
\* stored in context.parallel_results under the name of the agent that
\* produced it and on normal return parallel_results holds exactly the four
\* researcher names; if a run raises, parallel_workflow raises and the
\* context has no result added.
C18_ResultsAttributed ==
    /\ parallel.pc = "returned" =>
          /\ \A i \in 1..Len(Researchers) :
                /\ Cardinality({n \in 1..Len(parallel.context.parallel_results) :
                      parallel.context.parallel_results[n][1] = Researchers[i]}) = 1
                /\ parallel.context.parallel_results[
                      DictGet(parallel.context.parallel_results, Researchers[i])][2]
                      = parallel.final_outputs[i]
          /\ DictKeys(parallel.context.parallel_results)
                = {Researchers[i] : i \in 1..Len(Researchers)}
          /\ parallel.ret = parallel.context.parallel_results
    /\ parallel.pc \in {"start", "gather", "raised"} =>
          parallel.context = parallel.initial_context

\* the runs completed last to first, with different outputs for the first
\* and the last researcher, and the workflow returned
C18_Witness ==
    /\ parallel.pc = "returned"
    /\ parallel.completion_order = <<4, 3, 2, 1>>
    /\ parallel.final_outputs[1] # parallel.final_outputs[4]

\* a run raised after another had completed
C18_WitnessRaised ==
    /\ parallel.pc = "raised"
    /\ Len(parallel.completion_order) > 0

====
